---- MODULE Spec2Model ----
(***************************************************************************)
(* The chat room of apackeer/chat: room.run (the coordination loop),       *)
(* room.ServeHTTP (the acceptor), client.read (the inbound pump) and       *)
(* client.write (the outbound pump), as one state machine.                 *)
(*                                                                         *)
(* join, leave and forward are unbuffered Go channels: a sender blocks on  *)
(* the channel until room.run receives from it.  client.send is a buffered *)
(* channel of messageBufferSize slots.  An unrecovered panic in room.run   *)
(* and log.Fatal in ServeHTTP both end the whole process.                  *)
(***************************************************************************)
EXTENDS Integers, Sequences, FiniteSets, TLC

\* Number of requests ServeHTTP serves in one run; session k is the client
\* made for the k-th request that upgrader.Upgrade accepted.
NSessions == 2

Sessions == 1..NSessions

\* Capacity of client.send; the source sets 256, scaled down here.
messageBufferSize == 1

\* Bound on the number of messages the inbound pumps read in one run.
\* Messages are opaque to the room; the k-th message read is named k.
MaxForwards == 2

\* Most cookies a request carries.
MaxCookies == 5

\* net/http
StatusTemporaryRedirect == 307

\* No message held (a nil msg).
NoMsg == 0

VARIABLES
    proc,       \* "running", "exited" (log.Fatal) or "panic: ..." (room.run)
    clients,    \* r.clients
    hubPc,      \* room.run: "select" or "fanout" (inside the range loop)
    hubMsg,     \* msg of the forward case being processed
    todo,       \* clients the range loop has still to visit
    send,       \* client.send: the buffered messages
    closed,     \* client.send: closed or not
    accPc,      \* ServeHTTP + client.read of each session
    rdMsg,      \* the message read() holds for r.forward
    wrPc,       \* client.write of each session
    wrMsg,      \* the message write() is sending to the socket
    sock,       \* client.socket: "none", "open", "closed"
    waitq,      \* sessions blocked in a send to the room, in arrival order
    nRead,      \* messages read so far
    \* history variables (not program state)
    closeCalls, \* number of close(client.send) calls per session
    joinedP,    \* sessions whose Join was processed
    leftP,      \* sessions whose Leave was processed
    evictedP,   \* sessions evicted by a Forward
    fanStart,   \* r.clients when that Forward was received
    fanFull,    \* members whose mailbox was full at that moment
    fanSent,    \* members the message was enqueued to
    fanEvict,   \* members evicted by that Forward
    rejected,   \* number of requests whose upgrade failed
    written,    \* messages each pump wrote to its socket, in order
    memberSeq,  \* Forwards room.run received while the session was a member
    \* authHandler.ServeHTTP serving one request
    req,          \* the names of the cookies the request carries, in order
    authPc,       \* "idle", "done" or "panic"
    respStatus,   \* the status authHandler wrote (0: none)
    respLocation, \* the Location header authHandler set ("": none)
    nextCalls     \* calls of h.next.ServeHTTP

roomVars == <<proc, clients, hubPc, hubMsg, todo, send, closed, accPc,
              rdMsg, wrPc, wrMsg, sock, waitq, nRead, closeCalls, joinedP,
              leftP, evictedP, fanStart, fanFull, fanSent, fanEvict, rejected,
              written, memberSeq>>
authVars == <<req, authPc, respStatus, respLocation, nextCalls>>
vars == <<roomVars, authVars>>

hubVars == <<hubPc, hubMsg, todo>>
fanVars == <<fanStart, fanFull, fanSent, fanEvict>>
histVars == <<closeCalls, joinedP, leftP, evictedP>>
pumpVars == <<wrPc, wrMsg, sock, nRead>>
orderVars == <<written, memberSeq>>

----------------------------------------------------------------------------
\* No request reached authHandler yet.
AuthIdle ==
    /\ authPc = "idle"
    /\ respStatus = 0
    /\ respLocation = ""
    /\ nextCalls = 0

\* newRoom, and no request served yet.
RoomInit ==
    /\ proc = "running"
    /\ clients = {}
    /\ hubPc = "select"
    /\ hubMsg = NoMsg
    /\ todo = {}
    /\ send = [s \in Sessions |-> <<>>]
    /\ closed = [s \in Sessions |-> FALSE]
    /\ accPc = [s \in Sessions |-> "none"]
    /\ rdMsg = [s \in Sessions |-> NoMsg]
    /\ wrPc = [s \in Sessions |-> "none"]
    /\ wrMsg = [s \in Sessions |-> NoMsg]
    /\ sock = [s \in Sessions |-> "none"]
    /\ waitq = <<>>
    /\ nRead = 0
    /\ closeCalls = [s \in Sessions |-> 0]
    /\ joinedP = {}
    /\ leftP = {}
    /\ evictedP = {}
    /\ fanStart = {}
    /\ fanFull = {}
    /\ fanSent = {}
    /\ fanEvict = {}
    /\ rejected = 0
    /\ written = [s \in Sessions |-> <<>>]
    /\ memberSeq = [s \in Sessions |-> <<>>]

\* The chat server when it starts.
Init ==
    /\ RoomInit
    /\ req = <<>>
    /\ AuthIdle

----------------------------------------------------------------------------
\* The three intakes of the room.

\* The channel a blocked session is sending on.
Chan(s) ==
    CASE accPc[s] = "join" -> "join"
      [] accPc[s] = "leave" -> "leave"
      [] accPc[s] = "forward" -> "forward"
      [] OTHER -> "none"

InQ(s) == \E i \in 1..Len(waitq) : waitq[i] = s

Remove(q, s) == SelectSeq(q, LAMBDA x : x # s)

\* select: a channel with a blocked sender is chosen (any one, when several
\* are ready), and the receive takes that channel's longest-waiting sender.
Ready(s) ==
    \E i \in 1..Len(waitq) :
        /\ waitq[i] = s
        /\ \A j \in 1..(i - 1) : Chan(waitq[j]) # Chan(s)

\* A mutant of AtSelect: an event is taken while a fan-out is in progress.
AtSelectAlways == TRUE

\* room.run is at the select statement, ready to receive.
AtSelect == hubPc = "select"

----------------------------------------------------------------------------
\* Pieces of room.run.

\* A mutant of Insert: the Join is dropped.
InsertDropped(cs, c) == cs

\* r.clients[client] = true
Insert(cs, c) == cs \cup {c}

\* A mutant of Delete: the client stays in the map.
DeleteKept(cs, c) == cs

\* delete(r.clients, client)
Delete(cs, c) == cs \ {c}

\* A mutant of CloseMailbox: the mailbox is left open.
CloseSkipped(cl, c) == cl

\* close(client.send)
CloseMailbox(cl, c) == [cl EXCEPT ![c] = TRUE]

\* A mutant of CanSend: off by one.
CanSendOffByOne(q) == Len(q) <= messageBufferSize

\* case client.send <- msg: is taken when the buffer has a free slot.
CanSend(q) == Len(q) < messageBufferSize

\* client.send <- msg
Enqueue(q, m) == Append(q, m)

\* A mutant of SendReady: a plain (blocking) send, without the default case.
SendBlocks(q) == Len(q) < messageBufferSize

\* select { case client.send <- msg: ... default: ... }: with a default
\* case the select never waits, whatever the state of the mailbox.
SendReady(q) == TRUE

\* A mutant of Targets: the sender is left out.
TargetsOthers(cs, from) == cs \ {from}

\* for client := range r.clients
Targets(cs, from) == cs

----------------------------------------------------------------------------
\* room.ServeHTTP

\* A mutant of AfterUpgrade: the pumps are started without the Join.
AfterUpgradeNoJoin == "spawn"

\* What ServeHTTP does with a new client: r.join <- client.
AfterUpgrade == "join"

\* upgrader.Upgrade succeeds: the client is made (an empty open mailbox of
\* messageBufferSize slots) and ServeHTTP blocks in r.join <- client.
Upgrade(s) ==
    /\ proc = "running"
    /\ accPc[s] = "none"
    /\ \A t \in Sessions : t < s => accPc[t] # "none"
    /\ sock' = [sock EXCEPT ![s] = "open"]
    /\ send' = [send EXCEPT ![s] = <<>>]
    /\ closed' = [closed EXCEPT ![s] = FALSE]
    /\ accPc' = [accPc EXCEPT ![s] = AfterUpgrade]
    /\ waitq' = IF AfterUpgrade = "join" THEN Append(waitq, s) ELSE waitq
    /\ UNCHANGED orderVars
    /\ UNCHANGED authVars
    /\ UNCHANGED <<proc, clients, hubVars, rdMsg, wrPc, wrMsg, nRead,
                   histVars, fanVars, rejected>>

\* upgrader.Upgrade fails for one of the NSessions requests: no client is
\* made; log.Fatal writes the error and calls os.Exit(1), and the return
\* after it is never reached.
UpgradeFail ==
    /\ proc = "running"
    /\ \E s \in Sessions : accPc[s] = "none"
    /\ proc' = "exited"
    /\ rejected' = rejected + 1
    /\ UNCHANGED orderVars
    /\ UNCHANGED authVars
    /\ UNCHANGED <<clients, hubVars, send, closed, accPc, rdMsg, pumpVars,
                   waitq, histVars, fanVars>>

\* After r.join <- client returned: the deferred leave is registered,
\* go client.write() starts the outbound pump and client.read() is entered.
StartPumps(s) ==
    /\ proc = "running"
    /\ accPc[s] = "spawn"
    /\ accPc' = [accPc EXCEPT ![s] = "read"]
    /\ wrPc' = [wrPc EXCEPT ![s] = "range"]
    /\ UNCHANGED orderVars
    /\ UNCHANGED authVars
    /\ UNCHANGED <<proc, clients, hubVars, send, closed, rdMsg, wrMsg, sock,
                   waitq, nRead, histVars, fanVars, rejected>>

----------------------------------------------------------------------------
\* client.read

\* ReadMessage returns a message: read() blocks in c.room.forward <- msg.
ReadOk(s) ==
    /\ proc = "running"
    /\ accPc[s] = "read"
    /\ sock[s] = "open"
    /\ nRead < MaxForwards
    /\ nRead' = nRead + 1
    /\ rdMsg' = [rdMsg EXCEPT ![s] = nRead + 1]
    /\ accPc' = [accPc EXCEPT ![s] = "forward"]
    /\ waitq' = Append(waitq, s)
    /\ UNCHANGED orderVars
    /\ UNCHANGED authVars
    /\ UNCHANGED <<proc, clients, hubVars, send, closed, wrPc, wrMsg, sock,
                   histVars, fanVars, rejected>>

\* ReadMessage returns an error (the peer closed, the connection broke, or
\* write() closed the socket): the loop breaks, the socket is closed,
\* read() returns and the deferred r.leave <- client blocks ServeHTTP.
ReadErr(s) ==
    /\ proc = "running"
    /\ accPc[s] = "read"
    /\ sock' = [sock EXCEPT ![s] = "closed"]
    /\ accPc' = [accPc EXCEPT ![s] = "leave"]
    /\ waitq' = Append(waitq, s)
    /\ UNCHANGED orderVars
    /\ UNCHANGED authVars
    /\ UNCHANGED <<proc, clients, hubVars, send, closed, rdMsg, wrPc, wrMsg,
                   nRead, histVars, fanVars, rejected>>

----------------------------------------------------------------------------
\* client.write

\* A mutant of WriteCloses: write() returns without closing the socket.
WriteLeavesOpen == "open"

\* c.socket.Close() at the end of write().
WriteCloses == "closed"

\* A mutant of Dequeue: the received message stays in the mailbox.
DequeueKept(q) == q

\* What a receive from c.send leaves in the buffer.
Dequeue(q) == Tail(q)

\* A mutant of RangeEnds: the loop stops as soon as the channel is closed.
RangeEndsAtClose(q, cl) == cl

\* A range over a channel ends when the channel is closed and drained.
RangeEnds(q, cl) == cl /\ q = <<>>

\* for msg := range c.send: the head of the mailbox is received.
WrTake(s) ==
    /\ proc = "running"
    /\ wrPc[s] = "range"
    /\ send[s] # <<>>
    /\ wrMsg' = [wrMsg EXCEPT ![s] = Head(send[s])]
    /\ send' = [send EXCEPT ![s] = Dequeue(send[s])]
    /\ wrPc' = [wrPc EXCEPT ![s] = "write"]
    /\ UNCHANGED orderVars
    /\ UNCHANGED authVars
    /\ UNCHANGED <<proc, clients, hubVars, closed, accPc, rdMsg, sock, waitq,
                   nRead, histVars, fanVars, rejected>>

\* WriteMessage succeeds.
WrOk(s) ==
    /\ proc = "running"
    /\ wrPc[s] = "write"
    /\ sock[s] = "open"
    /\ wrMsg' = [wrMsg EXCEPT ![s] = NoMsg]
    /\ wrPc' = [wrPc EXCEPT ![s] = "range"]
    /\ written' = [written EXCEPT ![s] = Append(@, wrMsg[s])]
    /\ UNCHANGED memberSeq
    /\ UNCHANGED authVars
    /\ UNCHANGED <<proc, clients, hubVars, send, closed, accPc, rdMsg, sock,
                   waitq, nRead, histVars, fanVars, rejected>>

\* WriteMessage fails: the loop breaks and the socket is closed.
WrFail(s) ==
    /\ proc = "running"
    /\ wrPc[s] = "write"
    /\ wrMsg' = [wrMsg EXCEPT ![s] = NoMsg]
    /\ wrPc' = [wrPc EXCEPT ![s] = "done"]
    /\ sock' = [sock EXCEPT ![s] = WriteCloses]
    /\ UNCHANGED orderVars
    /\ UNCHANGED authVars
    /\ UNCHANGED <<proc, clients, hubVars, send, closed, accPc, rdMsg, waitq,
                   nRead, histVars, fanVars, rejected>>

\* The mailbox is closed and drained: the range loop ends and the socket is
\* closed.
WrEnd(s) ==
    /\ proc = "running"
    /\ wrPc[s] = "range"
    /\ RangeEnds(send[s], closed[s])
    /\ wrPc' = [wrPc EXCEPT ![s] = "done"]
    /\ sock' = [sock EXCEPT ![s] = WriteCloses]
    /\ UNCHANGED orderVars
    /\ UNCHANGED authVars
    /\ UNCHANGED <<proc, clients, hubVars, send, closed, accPc, rdMsg, wrMsg,
                   waitq, nRead, histVars, fanVars, rejected>>

----------------------------------------------------------------------------
\* room.run

\* case client := <-r.join
HubJoin(s) ==
    /\ proc = "running"
    /\ AtSelect
    /\ accPc[s] = "join"
    /\ Ready(s)
    /\ waitq' = Remove(waitq, s)
    /\ accPc' = [accPc EXCEPT ![s] = "spawn"]
    /\ clients' = Insert(clients, s)
    /\ joinedP' = joinedP \cup {s}
    /\ UNCHANGED orderVars
    /\ UNCHANGED authVars
    /\ UNCHANGED <<proc, hubVars, send, closed, rdMsg, pumpVars, closeCalls,
                   leftP, evictedP, fanVars, rejected>>

\* case client := <-r.leave: delete, then close(client.send); closing a
\* channel that is already closed panics, and nothing recovers the panic.
HubLeave(s) ==
    /\ proc = "running"
    /\ AtSelect
    /\ accPc[s] = "leave"
    /\ Ready(s)
    /\ waitq' = Remove(waitq, s)
    /\ accPc' = [accPc EXCEPT ![s] = "done"]
    /\ clients' = Delete(clients, s)
    /\ leftP' = leftP \cup {s}
    /\ closeCalls' = [closeCalls EXCEPT ![s] = @ + 1]
    /\ closed' = CloseMailbox(closed, s)
    /\ proc' = IF closed[s] THEN "panic: close of closed channel" ELSE proc
    /\ UNCHANGED orderVars
    /\ UNCHANGED authVars
    /\ UNCHANGED <<hubVars, send, rdMsg, pumpVars, joinedP, evictedP,
                   fanVars, rejected>>

\* case msg := <-r.forward: the range over r.clients starts.  (A range over
\* an empty map ends at once.)
HubForward(s) ==
    /\ proc = "running"
    /\ AtSelect
    /\ accPc[s] = "forward"
    /\ Ready(s)
    /\ waitq' = Remove(waitq, s)
    /\ accPc' = [accPc EXCEPT ![s] = "read"]
    /\ rdMsg' = [rdMsg EXCEPT ![s] = NoMsg]
    /\ todo' = Targets(clients, s)
    /\ IF todo' = {}
         THEN /\ hubPc' = "select"
              /\ hubMsg' = NoMsg
              /\ UNCHANGED fanVars
         ELSE /\ hubPc' = "fanout"
              /\ hubMsg' = rdMsg[s]
              /\ fanStart' = clients
              /\ fanFull' = {c \in clients : Len(send[c]) >= messageBufferSize}
              /\ fanSent' = {}
              /\ fanEvict' = {}
    /\ memberSeq' = [c \in Sessions |-> IF c \in clients
                                          THEN Append(memberSeq[c], rdMsg[s])
                                          ELSE memberSeq[c]]
    /\ UNCHANGED written
    /\ UNCHANGED authVars
    /\ UNCHANGED <<proc, clients, send, closed, pumpVars, histVars, rejected>>

\* One iteration of the range loop: the select with a default case.  A send
\* on a closed channel panics; otherwise the message is enqueued when the
\* buffer has room, and the client is deleted and its mailbox closed when
\* it has none.  After the last iteration room.run is back at its select
\* (and the history of the fan-out is forgotten).
FanStep(c) ==
    /\ proc = "running"
    /\ hubPc = "fanout"
    /\ c \in todo
    /\ SendReady(send[c])
    /\ todo' = todo \ {c}
    /\ IF closed[c]
         THEN /\ proc' = "panic: send on closed channel"
              /\ UNCHANGED <<clients, send, closed, closeCalls, evictedP,
                             hubPc, hubMsg, fanVars>>
         ELSE /\ hubPc' = IF todo' = {} THEN "select" ELSE "fanout"
              /\ hubMsg' = IF todo' = {} THEN NoMsg ELSE hubMsg
              /\ fanStart' = IF todo' = {} THEN {} ELSE fanStart
              /\ fanFull' = IF todo' = {} THEN {} ELSE fanFull
              /\ IF CanSend(send[c])
                   THEN /\ send' = [send EXCEPT ![c] = Enqueue(send[c], hubMsg)]
                        /\ fanSent' = IF todo' = {} THEN {}
                                      ELSE fanSent \cup {c}
                        /\ fanEvict' = IF todo' = {} THEN {} ELSE fanEvict
                        /\ UNCHANGED <<proc, clients, closed, closeCalls,
                                       evictedP>>
                   ELSE /\ clients' = Delete(clients, c)
                        /\ closed' = CloseMailbox(closed, c)
                        /\ closeCalls' = [closeCalls EXCEPT ![c] = @ + 1]
                        /\ evictedP' = evictedP \cup {c}
                        /\ fanEvict' = IF todo' = {} THEN {}
                                       ELSE fanEvict \cup {c}
                        /\ fanSent' = IF todo' = {} THEN {} ELSE fanSent
                        /\ UNCHANGED <<proc, send>>
    /\ UNCHANGED orderVars
    /\ UNCHANGED authVars
    /\ UNCHANGED <<accPc, rdMsg, pumpVars, waitq, joinedP, leftP, rejected>>

----------------------------------------------------------------------------
Next ==
    \/ \E s \in Sessions : Upgrade(s)
    \/ UpgradeFail
    \/ \E s \in Sessions : StartPumps(s)
    \/ \E s \in Sessions : ReadOk(s)
    \/ \E s \in Sessions : ReadErr(s)
    \/ \E s \in Sessions : WrTake(s)
    \/ \E s \in Sessions : WrOk(s)
    \/ \E s \in Sessions : WrFail(s)
    \/ \E s \in Sessions : WrEnd(s)
    \/ \E s \in Sessions : HubJoin(s)
    \/ \E s \in Sessions : HubLeave(s)
    \/ \E s \in Sessions : HubForward(s)
    \/ \E c \in Sessions : FanStep(c)

Spec == Init /\ [][Next]_vars

\* The steps of room.run.
HubStep ==
    \/ \E s \in Sessions : HubJoin(s) \/ HubLeave(s) \/ HubForward(s)
    \/ \E c \in Sessions : FanStep(c)

\* room.run is a goroutine of its own and is scheduled whenever it can
\* run; nothing is assumed about the pumps, which may stall for ever.
HubFairSpec == Spec /\ WF_vars(HubStep)

\* The steps of client.write.
WriterStep(s) == WrTake(s) \/ WrOk(s) \/ WrFail(s) \/ WrEnd(s)

\* ReadMessage on a connection that was closed returns an error.
ReadClosed(s) == sock[s] = "closed" /\ ReadErr(s)

\* Every goroutine is scheduled whenever it can run, WriteMessage returns
\* (with or without an error), and ReadMessage returns once the connection
\* is closed.  A read on an open connection may wait for ever.
FairSpec ==
    /\ Spec
    /\ WF_vars(HubStep)
    /\ \A s \in Sessions :
          /\ WF_vars(StartPumps(s))
          /\ WF_vars(WriterStep(s))
          /\ WF_vars(ReadClosed(s))

----------------------------------------------------------------------------
\* Steps of room.run, recognised from a pair of states.

\* room.run receives the Leave of s.
LeaveProcessed(s) == accPc[s] = "leave" /\ accPc'[s] = "done"

\* room.run receives the Join of s.
JoinProcessed(s) == accPc[s] = "join" /\ accPc'[s] # "join"

\* room.run receives a Forward from s.
ForwardReceived(s) == accPc[s] = "forward" /\ accPc'[s] # "forward"

\* room.run takes some event from an intake.
EventTaken == \E s \in Sessions :
    JoinProcessed(s) \/ LeaveProcessed(s) \/ ForwardReceived(s)

\* The range loop of the forward case visits c.
Visited(c) == hubPc = "fanout" /\ c \in todo /\ c \notin todo'

Last(q) == q[Len(q)]

----------------------------------------------------------------------------
\* C1: a Leave processed for a session whose mailbox is already closed (it
\* was evicted, or already left) does not fault the loop and leaves the
\* membership set and the closed state of every mailbox as they were.
C1_LeaveIdempotent ==
    [][\A s \in Sessions :
          (LeaveProcessed(s) /\ closed[s]) =>
              /\ proc' = "running"
              /\ clients' = clients
              /\ closed' = closed]_vars

\* C2: close(client.send) is called at most once for every session.
C2_ClosedAtMostOnce == \A s \in Sessions : closeCalls[s] <= 1

\* C3: the coordination loop never faults: room.run never panics, so after
\* every event it is at its select again or inside the fan-out.
C3_LoopNeverFaults ==
    proc \notin {"panic: close of closed channel",
                 "panic: send on closed channel"}

\* C4: the membership set is the set of sessions whose Join was processed
\* and that have neither had a Leave processed nor been evicted.
C4_MembershipIsJoinedNotLeft == clients = joinedP \ (leftP \cup evictedP)

C4_Witness ==
    /\ proc = "running"
    /\ joinedP = Sessions
    /\ leftP # {}
    /\ evictedP # {}
    /\ clients = {}

C7_NoDeliveryToNonMembers ==
    /\ [](/\ \A c \in clients : ~closed[c] /\ c \notin leftP \cup evictedP
          /\ proc # "panic: send on closed channel")
    /\ [][\A s \in Sessions :
             Len(send'[s]) > Len(send[s]) =>
                 /\ s \in clients
                 /\ s \notin leftP \cup evictedP
                 /\ ~closed[s]]_vars

\* Session a left while message 1 was still in its mailbox; message 2 was
\* forwarded later and reached member d only.
C7_Witness ==
    \E a \in leftP \ evictedP : \E d \in clients :
        /\ send[a] = <<1>>
        /\ closed[a]
        /\ send[d] # <<>>
        /\ Last(send[d]) = 2

\* C8 as claimed: events are processed one at a time, and room.run always
\* takes the submission that has waited longest, whatever its intake.
C8_ArrivalOrder ==
    [][/\ EventTaken => (hubPc = "select" /\ todo = {})
       /\ Len(waitq') < Len(waitq) => waitq' = Tail(waitq)]_vars

\* C8 amended: events are processed one at a time (no event is taken while
\* a fan-out is in progress, and only room.run's own steps change the
\* membership set), and submissions on the same intake are taken in arrival
\* order; between intakes the select may take either.
C8_OneAtATimePerIntakeOrder ==
    [][/\ EventTaken => (hubPc = "select" /\ todo = {})
       /\ hubPc = "fanout" => ~EventTaken
       /\ \A s \in Sessions :
             (InQ(s) /\ s \notin {waitq'[i] : i \in 1..Len(waitq')}) =>
                 /\ waitq' = Remove(waitq, s)
                 /\ \A i, j \in 1..Len(waitq) :
                        (i < j /\ waitq[j] = s)
                            => Chan(waitq[i]) # Chan(s)]_vars

\* A submission waits while the fan-out of an earlier Forward is half done.
C8_Witness ==
    /\ hubPc = "fanout"
    /\ fanSent \cup fanEvict # {}
    /\ waitq # <<>>

C10_UpgradeFailureContained ==
    [][rejected' # rejected =>
          /\ proc' = "running"
          /\ UNCHANGED <<clients, send, closed, waitq, accPc>>]_vars


\* C11: the fan-out never waits for a pump or a connection: while the
\* process runs, the next visit of the range loop can always be taken,
\* whatever the pumps do, and with room.run scheduled (and no pump assumed
\* to move) every fan-out ends with room.run back at its select, unless
\* the process has ended.
C11_ForwardNeverWaits ==
    /\ []((hubPc = "fanout" /\ proc = "running") => ENABLED HubStep)
    /\ (hubPc = "fanout") ~> (hubPc = "select" \/ proc # "running")

\* A Forward has finished by evicting a session whose outbound pump has not
\* moved: its mailbox is still full and its connection open.
C11_Witness ==
    /\ hubPc = "select"
    /\ proc = "running"
    /\ \E c \in evictedP :
          /\ wrPc[c] = "range"
          /\ Len(send[c]) = messageBufferSize
          /\ sock[c] = "open"


\* C12: once a session's connection has ended, both its pumps terminate,
\* its Leave is processed and it is absent from the membership set for
\* good; processing that Leave leaves the process running and every other
\* session's membership and mailbox as they were.
C12_ConnectionEndCleansUp ==
    /\ \A s \in Sessions :
          (sock[s] = "closed") ~>
              (accPc[s] = "done" /\ wrPc[s] = "done" /\ s \in leftP
                 /\ s \notin clients)
    /\ [][\A s \in Sessions :
             /\ s \in leftP => s \notin clients'
             /\ LeaveProcessed(s) =>
                    /\ proc' = "running"
                    /\ \A t \in Sessions \ {s} :
                           /\ (t \in clients' <=> t \in clients)
                           /\ send'[t] = send[t]
                           /\ closed'[t] = closed[t]
                           /\ wrPc'[t] = wrPc[t]
                           /\ accPc'[t] = accPc[t]]_vars


\* C13: after a session was evicted, its outbound pump (whose sends
\* complete or fail) ends and closes the connection, and the inbound pump
\* then exits: the connection of an evicted session does not stay open for
\* ever.  (The end of the process closes every connection.)
C13_EvictedConnectionCloses ==
    \A s \in Sessions :
        (s \in evictedP) ~>
            \/ (wrPc[s] = "done" /\ sock[s] = "closed"
                  /\ accPc[s] \in {"leave", "done"})
            \/ proc # "running"

\* The pump of an evicted session drained the closed mailbox and closed the
\* connection, and read() has returned.
C13_Witness ==
    \E s \in evictedP :
        /\ proc = "running"
        /\ send[s] = <<>>
        /\ wrPc[s] = "done"
        /\ sock[s] = "closed"
        /\ accPc[s] = "leave"


\* Steps of the other goroutines, recognised from a pair of states.

\* room.run takes a step.
HubActs == EventTaken \/ \E c \in Sessions : Visited(c)

\* client.read of s takes a step.
ReaderActs(s) == accPc[s] = "read" /\ accPc'[s] \in {"forward", "leave"}

\* client.write of s takes a step.
WriterActs(s) == wrPc[s] # "none" /\ wrPc'[s] # wrPc[s]

\* ServeHTTP of s takes a step outside read().
AcceptorActs(s) == accPc[s] \in {"none", "spawn"} /\ accPc'[s] # accPc[s]

\* C14: only steps of room.run change the membership set, close a mailbox
\* or enqueue to one; steps of the acceptor and of the inbound pump leave
\* the membership set and every mailbox unchanged; a step of the outbound
\* pump leaves the membership set unchanged and at most removes the head
\* message of its own mailbox.
C14_OnlyTheLoopMutates ==
    [][/\ (clients' # clients) => HubActs
       /\ \A s \in Sessions :
             /\ (closed'[s] # closed[s] \/ Len(send'[s]) > Len(send[s]))
                    => HubActs
             /\ (ReaderActs(s) \/ AcceptorActs(s)) =>
                    (clients' = clients /\ send' = send /\ closed' = closed)
             /\ WriterActs(s) =>
                    /\ clients' = clients
                    /\ closed' = closed
                    /\ \A t \in Sessions \ {s} : send'[t] = send[t]
                    /\ IF wrPc[s] = "range" /\ wrPc'[s] = "write"
                         THEN /\ send[s] # <<>>
                              /\ send'[s] = Tail(send[s])
                              /\ wrMsg'[s] = Head(send[s])
                         ELSE send'[s] = send[s]]_vars

\* The outbound pump of a member holds message 1, taken from the head of
\* its mailbox, while room.run has enqueued message 2 behind it.
C14_Witness ==
    \E s \in clients :
        /\ wrPc[s] = "write"
        /\ wrMsg[s] = 1
        /\ send[s] = <<2>>


\* C15: closing a mailbox does not stop the outbound pump and drops none
\* of the messages in it; from a closed mailbox that still holds messages
\* the pump can take the next one, and takes them in order; the pump stops
\* only on a closed and empty mailbox or after a send failed.
C15_DrainsClosedMailbox ==
    /\ [](\A s \in Sessions :
            (proc = "running" /\ closed[s] /\ send[s] # <<>>
               /\ wrPc[s] = "range") => ENABLED WrTake(s))
    /\ [][\A s \in Sessions :
             /\ (closed'[s] /\ ~closed[s]) =>
                    /\ wrPc'[s] = wrPc[s]
                    /\ wrMsg'[s] = wrMsg[s]
                    /\ send'[s] = send[s]
                    /\ sock'[s] = sock[s]
             /\ (wrPc'[s] = "done" /\ wrPc[s] # "done") =>
                    \/ wrPc[s] = "range" /\ closed[s] /\ send[s] = <<>>
                    \/ wrPc[s] = "write"
             /\ (closed[s] /\ send'[s] # send[s]) =>
                    /\ wrPc[s] = "range"
                    /\ wrPc'[s] = "write"
                    /\ wrMsg'[s] = Head(send[s])
                    /\ send'[s] = Tail(send[s])]_vars

\* The pump of an evicted session has written, after the close, the message
\* that filled the mailbox, and has not stopped yet.
C15_Witness ==
    \E s \in evictedP :
        /\ closed[s]
        /\ send[s] = <<>>
        /\ wrPc[s] = "range"
        /\ sock[s] = "open"


\* C16: every mailbox holds between 0 and messageBufferSize messages.
C16_MailboxWithinCapacity ==
    \A s \in Sessions : Len(send[s]) \in 0..messageBufferSize

\* A member's mailbox is full again while its pump still holds an earlier
\* message.
C16_Witness ==
    \E s \in clients :
        /\ Len(send[s]) = messageBufferSize
        /\ wrPc[s] = "write"
        /\ wrMsg[s] # NoMsg

\* C17: a session enters the membership set only by its Join and only if it
\* was never a member before; it leaves the set only by its Leave or by an
\* eviction, and both close its (until then open) mailbox and keep its
\* content; once removed it is never a member again.
C17_AbsentMemberAbsent ==
    [][\A s \in Sessions :
          /\ (s \in clients' /\ s \notin clients) =>
                 /\ JoinProcessed(s)
                 /\ s \notin joinedP
                 /\ s \notin leftP \cup evictedP
          /\ (s \in clients /\ s \notin clients') =>
                 /\ LeaveProcessed(s) \/ Visited(s)
                 /\ ~closed[s]
                 /\ closed'[s]
                 /\ closeCalls'[s] = 1
                 /\ send'[s] = send[s]
          /\ (s \in leftP \cup evictedP) => s \notin clients']_vars

\* One session was removed by its Leave and another by an eviction.
C17_Witness ==
    \E a \in leftP \ evictedP : \E b \in evictedP \ leftP :
        /\ proc = "running"
        /\ closed[a] /\ closed[b]
        /\ a \notin clients /\ b \notin clients

----------------------------------------------------------------------------
\* p is a prefix of q.
IsPrefix(p, q) ==
    /\ Len(p) <= Len(q)
    /\ \A i \in 1..Len(p) : p[i] = q[i]

\* m occurs in q.
Occurs(q, m) == \E i \in 1..Len(q) : q[i] = m

\* m1 occurs in q before m2.
Before(q, m1, m2) ==
    \E i, j \in 1..Len(q) : i < j /\ q[i] = m1 /\ q[j] = m2

----------------------------------------------------------------------------
\* authHandler (MustAuth) serving one request.

\* The names a cookie of a request may have.
CookieNames == {"auth", "other"}

\* The requests: up to MaxCookies cookies, in the order of the header.
Requests == UNION {[1..n -> CookieNames] : n \in 0..MaxCookies}

\* A mutant of Cookie: only the first cookie of the request is looked at.
CookieFirstOnly(r, name) ==
    IF r # <<>> /\ r[1] = name THEN "nil" ELSE "ErrNoCookie"

\* The err of r.Cookie(name): nil when the request carries a cookie of that
\* name, http.ErrNoCookie when it carries none.
Cookie(r, name) ==
    IF \E i \in 1..Len(r) : r[i] = name THEN "nil" ELSE "ErrNoCookie"

\* A request arrives at the handler MustAuth made.
AuthInit ==
    /\ RoomInit
    /\ req \in Requests
    /\ AuthIdle

\* authHandler.ServeHTTP
AuthServe ==
    /\ authPc = "idle"
    /\ LET err == Cookie(req, "auth") IN
         IF err = "ErrNoCookie"
           THEN /\ respLocation' = "/login"
                /\ respStatus' = StatusTemporaryRedirect
                /\ authPc' = "done"
                /\ UNCHANGED nextCalls
           ELSE IF err # "nil"
                  THEN /\ authPc' = "panic"
                       /\ UNCHANGED <<respLocation, respStatus, nextCalls>>
                  ELSE /\ nextCalls' = nextCalls + 1
                       /\ authPc' = "done"
                       /\ UNCHANGED <<respLocation, respStatus>>
    /\ UNCHANGED <<req, roomVars>>

AuthNext == AuthServe

AuthSpec == AuthInit /\ [][AuthNext]_vars

\* C19: a request without an "auth" cookie never reaches the wrapped
\* handler and is answered with a temporary redirect to /login; the wrapped
\* handler is called exactly once if and only if the cookie is present, and
\* never more than once.
C19_MustAuthGuardsNext ==
    LET present == \E i \in 1..Len(req) : req[i] = "auth" IN
    /\ authPc \in {"idle", "done"}
    /\ nextCalls <= 1
    /\ ~present => nextCalls = 0
    /\ authPc = "done" =>
          /\ nextCalls = 1 <=> present
          /\ ~present => /\ respStatus = 307
                         /\ respLocation = "/login"
          /\ present => /\ respStatus = 0
                        /\ respLocation = ""

\* A request that carries cookies, none of them "auth", has been redirected.
C19_Witness ==
    /\ authPc = "done"
    /\ Len(req) = MaxCookies
    /\ \A i \in 1..Len(req) : req[i] = "other"
    /\ respStatus = 307
    /\ respLocation = "/login"
    /\ nextCalls = 0

====
